---- MODULE Spec2Model ----
(***************************************************************************)
(* The Streamlit dashboard of app/main.py as a state machine.              *)
(*                                                                         *)
(* One process is modelled: the data directory fs, the st.cache_data      *)
(* store of load_all_cleaned_data, the widget values of the one browser   *)
(* session and what the last run of the script put on the page.  Every    *)
(* user interaction re-runs the whole script (lines 36-92), so every user *)
(* action below is "set the widget, then run the script".                 *)
(*                                                                         *)
(* Numbers: a mean is kept as an exact reduced fraction [num, den].  A    *)
(* missing cell is a field the row does not have.  The sensor cells of    *)
(* the modelled rows are never missing; the Cleaning cell may be.  Every  *)
(* file that exists is a well-formed CSV with a Timestamp column.         *)
(***************************************************************************)
EXTENDS Integers, Sequences, FiniteSets, TLC

VARIABLES
    fs,                 \* the data directory: file path -> [exists, rows]
    fsChanged,          \* whether the data directory has changed since the process started
    ranSinceChange,     \* whether the script has run since the data directory changed
    argsort_ties,       \* how this build's default (unstable) sort leaves equal keys
    cache,              \* the st.cache_data store: <<>>, or <<entry>> once the call is stored
    reads,              \* how many times the body of load_all_cleaned_data has run
    page,               \* which branch of lines 38-92 the last run of the script took
    df_combined,        \* line 36, as of the last run of the script
    selected_countries, \* the multiselect's value (line 42)
    selected_metric,    \* the selectbox's value (line 53)
    filtered_df,        \* line 49
    plot_metric,        \* the y column of the box and line plots (lines 59, 65)
    avg_ghi_ranking,    \* the ranking table (line 72)
    cleaning_impact_df, \* the cleaning impact table (line 81)
    messages            \* the st.error / st.info / st.warning boxes on the page

vars == <<fs, fsChanged, ranSinceChange, argsort_ties, cache, reads, page, df_combined, selected_countries,
          selected_metric, filtered_df, plot_metric, avg_ghi_ranking,
          cleaning_impact_df, messages>>

(***************************************************************************)
(* Bounds of the model.                                                    *)
(***************************************************************************)
MaxRows == 3     \* rows in the whole data directory
MaxReads == 2    \* runs of the body of load_all_cleaned_data that are followed

(***************************************************************************)
(* Files, and the branches of the page.                                    *)
(***************************************************************************)
Absent == [exists |-> FALSE, rows |-> <<>>]   \* os.path.exists(file_path) is False

File(rows) == [exists |-> TRUE, rows |-> rows]

NotRun == "NotRun"                    \* the script has not run yet
NoData == "NoData"                    \* line 91: df_combined is empty
NothingSelected == "NothingSelected"  \* line 89: filtered_df is empty
Dashboard == "Dashboard"              \* lines 52-87

NoPlot == "NoPlot"

(***************************************************************************)
(* The configuration inside load_all_cleaned_data.                         *)
(***************************************************************************)
base_path == "../data/"

\* The keys of country_files in insertion order, the order .items() yields.
CountryOrder == <<"Benin", "Sierra Leone", "Togo">>

country_files ==
    ("Benin" :> "benin_clean.csv") @@
    ("Sierra Leone" :> "sierra_leone_clean.csv") @@
    ("Togo" :> "togo_clean.csv")

Countries == DOMAIN country_files

file_path(country) == base_path \o country_files[country]

Paths == {file_path(c) : c \in Countries}

\* The options of the metric selectbox, in order.
MetricOptions == <<"GHI", "DNI", "DHI", "Tamb", "RH", "WS", "BP">>

Metrics == {MetricOptions[i] : i \in 1..Len(MetricOptions)}

(***************************************************************************)
(* The rows a cleaned CSV may hold.  A raw row has no Country column.      *)
(***************************************************************************)
RowA == [Timestamp |-> 1, GHI |-> 500, DNI |-> 100, DHI |-> 60, Tamb |-> 30,
         RH |-> 40, WS |-> 2, BP |-> 990, ModA |-> 10, ModB |-> 20, Cleaning |-> 0]

RowB == [Timestamp |-> 2, GHI |-> 300, DNI |-> 700, DHI |-> 80, Tamb |-> 20,
         RH |-> 90, WS |-> 4, BP |-> 1000, ModA |-> 30, ModB |-> 50, Cleaning |-> 1]

\* A row of a file that has no Cleaning column (or an empty Cleaning cell).
RowC == [Timestamp |-> 3, GHI |-> 400, DNI |-> 400, DHI |-> 70, Tamb |-> 25,
         RH |-> 60, WS |-> 3, BP |-> 980, ModA |-> 20, ModB |-> 40]

RowPool == {RowA, RowB, RowC}

SeqsUpTo(S, n) == UNION {[1..k -> S] : k \in 0..n}

FileContents == SeqsUpTo(RowPool, MaxRows)

RECURSIVE TotalRows(_, _)
TotalRows(files, paths) ==
    IF paths = {} THEN 0
    ELSE LET p == CHOOSE q \in paths : TRUE
         IN  Len(files[p].rows) + TotalRows(files, paths \ {p})

(***************************************************************************)
(* Arithmetic: exact means.                                                *)
(***************************************************************************)
RECURSIVE Gcd(_, _)
Gcd(a, b) == IF b = 0 THEN a ELSE Gcd(b, a % b)

RECURSIVE SumSeq(_)
SumSeq(s) == IF s = <<>> THEN 0 ELSE Head(s) + SumSeq(Tail(s))

\* Series.mean() of a non-empty column of numbers.
Mean(s) ==
    LET total == SumSeq(s)
        g == Gcd(total, Len(s))
    IN  [num |-> total \div g, den |-> Len(s) \div g]

MeanLess(a, b) == a.num * b.den < b.num * a.den

(***************************************************************************)
(* Data frames: a frame is the sequence of its rows, a row a record.       *)
(***************************************************************************)
\* Variant: the frame is never taken to be empty.
Empty_never(df) == FALSE

\* df.empty
Empty(df) == Len(df) = 0

\* df.columns, as far as the rows show them: a column none of whose cells is
\* filled counts as not there (line 79 treats the two alike).
Columns(df) == UNION {DOMAIN df[i] : i \in 1..Len(df)}

\* The rows of df whose cell in column col is not missing.
notna(df, col) == SelectSeq(df, LAMBDA row : col \in DOMAIN row)

\* df[col], the missing cells skipped
Column(df, col) == LET rows == notna(df, col) IN [i \in 1..Len(rows) |-> rows[i][col]]

\* df[col].nunique(): the distinct values, missing cells not counted.
nunique(df, col) == Cardinality({Column(df, col)[i] : i \in 1..Len(Column(df, col))})

\* pd.concat(all_dfs, ignore_index=True)
RECURSIVE concat(_)
concat(dfs) == IF dfs = <<>> THEN <<>> ELSE Head(dfs) \o concat(Tail(dfs))

(***************************************************************************)
(* load_all_cleaned_data (lines 12-34).                                    *)
(***************************************************************************)
\* pd.read_csv(file_path, parse_dates=['Timestamp']) of an existing file
read_csv(files, path) == files[path].rows

\* Variant: every frame is labelled with the first configured country.
set_country_first(df, country) ==
    [i \in 1..Len(df) |-> ("Country" :> CountryOrder[1]) @@ df[i]]

\* df['Country'] = country: the column is set, or overwritten, on every row
set_country(df, country) == [i \in 1..Len(df) |-> ("Country" :> country) @@ df[i]]

\* The st.error of line 29.
Message(kind, country, path) == [kind |-> kind, country |-> country, file_path |-> path]

MissingFileError(country, path) == Message("error", country, path)

\* Variant: on a missing file the frames read so far are returned.
RECURSIVE load_loop_partial(_, _, _)
load_loop_partial(files, i, all_dfs) ==
    IF i > Len(CountryOrder)
    THEN [df |-> concat(all_dfs), shown |-> {}]
    ELSE LET country == CountryOrder[i]
             path == file_path(country)
         IN  IF files[path].exists
             THEN load_loop_partial(files, i + 1,
                      Append(all_dfs, [j \in 1..Len(files[path].rows) |->
                                          ("Country" :> country) @@ files[path].rows[j]]))
             ELSE [df |-> concat(all_dfs),
                   shown |-> {Message("error", country, path)}]

\* The for loop of lines 22-30 from the i-th entry of country_files on, and
\* lines 32-34 after it.  The result is the returned frame together with the
\* elements the call put on the page, which st.cache_data stores and replays.
RECURSIVE load_loop(_, _, _)
load_loop(files, i, all_dfs) ==
    IF i > Len(CountryOrder)
    THEN [df |-> IF all_dfs # <<>> THEN concat(all_dfs) ELSE <<>>, shown |-> {}]
    ELSE LET country == CountryOrder[i]
             path == file_path(country)
         IN  IF files[path].exists
             THEN load_loop(files, i + 1,
                            Append(all_dfs, set_country(read_csv(files, path), country)))
             ELSE [df |-> <<>>, shown |-> {MissingFileError(country, path)}]

load_all_cleaned_data(files) == load_loop(files, 1, <<>>)

\* Variant: nothing is memoized, the body runs on every call.
cache_data_always_runs(stored, files) ==
    [value |-> load_all_cleaned_data(files), miss |-> TRUE]

\* @st.cache_data (line 11): the body runs only when nothing is stored.
\* miss tells whether the body ran.  No ttl, no max_entries: an entry stays.
cache_data(stored, files) ==
    IF stored = <<>>
    THEN [value |-> load_all_cleaned_data(files), miss |-> TRUE]
    ELSE [value |-> stored[1], miss |-> FALSE]

\* Variant: the script filters the stored frame in place.
cache_entry_after_shared(entry, filtered) == [entry EXCEPT !.df = filtered]

\* What the store holds after a run of the script: st.cache_data hands the
\* script a copy of the entry, and line 49 builds a new frame, so the entry is
\* as it was stored.
cache_entry_after(entry, filtered) == entry

(***************************************************************************)
(* The widgets.  choice is <<>> while the session holds no value for the   *)
(* widget (it then returns its default) and <<v>> once the user chose v.   *)
(***************************************************************************)
\* df_combined['Country'].unique().tolist() (line 41)
all_countries(df) == {df[i].Country : i \in 1..Len(df)}

\* st.sidebar.multiselect(options=all_countries, default=all_countries)
multiselect(choice, options) ==
    IF choice = <<>> THEN options
    ELSE IF choice[1] \subseteq options THEN choice[1] ELSE options

\* st.sidebar.selectbox(options=[...]): the first option by default
selectbox(choice) == IF choice = <<>> THEN MetricOptions[1] ELSE choice[1]

(***************************************************************************)
(* The derived views.                                                      *)
(***************************************************************************)
\* Variant: the last matching row is lost.
isin_drop_last(df, selected) ==
    LET kept == SelectSeq(df, LAMBDA row : row.Country \in selected)
    IN  IF Len(kept) > 1 THEN SubSeq(kept, 1, Len(kept) - 1) ELSE kept

\* df[df['Country'].isin(selected)] (line 49)
isin(df, selected) == SelectSeq(df, LAMBDA row : row.Country \in selected)

\* groupby sorts the group keys: the country names in lexicographic order.
KeyOrder == <<"Benin", "Sierra Leone", "Togo">>

\* df.groupby('Country')[col].mean(): one entry per country that has rows,
\* in key order.
groupby_mean(df, col) ==
    LET keys == SelectSeq(KeyOrder, LAMBDA c : c \in all_countries(df))
    IN  [i \in 1..Len(keys) |->
            [Country |-> keys[i], mean |-> Mean(Column(isin(df, {keys[i]}), col))]]

Remove(s, i) == SubSeq(s, 1, i - 1) \o SubSeq(s, i + 1, Len(s))

\* Variant: the series is left in key order.
sort_values_unsorted(series, ties) == series

\* Variant: of the entries with equal means only one is kept.
RECURSIVE sort_values_distinct(_, _)
sort_values_distinct(series, ties) ==
    IF series = <<>> THEN <<>>
    ELSE LET top == {i \in 1..Len(series) :
                        \A j \in 1..Len(series) : ~MeanLess(series[i].mean, series[j].mean)}
             i == IF ties = "kept"
                  THEN CHOOSE k \in top : \A j \in top : k <= j
                  ELSE CHOOSE k \in top : \A j \in top : k >= j
         IN  <<series[i]>> \o
             sort_values_distinct(
                 SelectSeq(series, LAMBDA e : MeanLess(e.mean, series[i].mean)), ties)

\* Series.sort_values(ascending=False) with the default kind, 'quicksort',
\* which is not stable: entries with equal means come out in an order that
\* depends on the build (ties), either as they stood or the other way round.
RECURSIVE sort_values(_, _)
sort_values(series, ties) ==
    IF series = <<>> THEN <<>>
    ELSE LET top == {i \in 1..Len(series) :
                        \A j \in 1..Len(series) : ~MeanLess(series[i].mean, series[j].mean)}
             i == IF ties = "kept"
                  THEN CHOOSE k \in top : \A j \in top : k <= j
                  ELSE CHOOSE k \in top : \A j \in top : k >= j
         IN  <<series[i]>> \o sort_values(Remove(series, i), ties)

\* Variant: the ranking follows the selectbox.
ranking_column_selected(metric) == metric

\* The column the ranking table averages: the literal 'GHI' of line 72,
\* whatever the selectbox holds.
ranking_column(metric) == "GHI"

\* Lines 72-73: group, average, sort, and name the two columns.
ranking(df, col, ties) ==
    LET sorted == sort_values(groupby_mean(df, col), ties)
    IN  [i \in 1..Len(sorted) |->
            [Country |-> sorted[i].Country, Average |-> sorted[i].mean]]

\* Variant: one Cleaning value is enough.
cleaning_relevant_any(df) == "Cleaning" \in Columns(df)

\* The condition of line 79.
cleaning_relevant(df) == "Cleaning" \in Columns(df) /\ nunique(df, "Cleaning") > 1

\* The map of line 82.
CleaningStatus(v) == IF v = 0 THEN "No Cleaning" ELSE "Cleaning Occurred"

\* The keys of groupby(['Country', 'Cleaning']) in sorted order.
PairOrder == [k \in 1..(2 * Len(KeyOrder)) |-> <<KeyOrder[((k - 1) \div 2) + 1], (k - 1) % 2>>]

\* The rows of one (Country, Cleaning) group; rows with no Cleaning cell are in none.
cleaning_group(df, key) ==
    SelectSeq(notna(df, "Cleaning"),
              LAMBDA row : row.Country = key[1] /\ row.Cleaning = key[2])

\* Lines 81-82: one entry per (Country, Cleaning) pair that has rows.
cleaning_impact(df) ==
    LET keys == SelectSeq(PairOrder, LAMBDA key : cleaning_group(df, key) # <<>>)
    IN  [i \in 1..Len(keys) |->
            [Country |-> keys[i][1],
             Cleaning |-> keys[i][2],
             ModA |-> Mean(Column(cleaning_group(df, keys[i]), "ModA")),
             ModB |-> Mean(Column(cleaning_group(df, keys[i]), "ModB")),
             Cleaning_Status |-> CleaningStatus(keys[i][2])]]

(***************************************************************************)
(* One run of the script from line 36 on: what it leaves on the page.      *)
(***************************************************************************)
NoDataWarning == Message("warning", "", "")       \* line 92
SelectCountryInfo == Message("info", "", "")      \* line 90
NoGhiInfo == Message("info", "GHI", "")           \* line 76

\* A page with no widget and no view on it.  A widget that is not rendered
\* holds no value; the variables then hold {} and the first metric option.
BlankPage(branch, df, shown) ==
    [page |-> branch, df_combined |-> df, selected_countries |-> {},
     selected_metric |-> MetricOptions[1], filtered_df |-> <<>>, plot_metric |-> NoPlot,
     avg_ghi_ranking |-> <<>>, cleaning_impact_df |-> <<>>, messages |-> shown]

script(loaded, choice_countries, choice_metric, ties) ==
    LET df == loaded.df
        selected == multiselect(choice_countries, all_countries(df))
        filtered == isin(df, selected)
        metric == selectbox(choice_metric)
        blank == BlankPage(Dashboard, df, loaded.shown)
    IN  IF Empty(df)
        THEN BlankPage(NoData, df, loaded.shown \cup {NoDataWarning})
        ELSE IF Empty(filtered)
        THEN [BlankPage(NothingSelected, df, loaded.shown \cup {SelectCountryInfo})
                  EXCEPT !.selected_countries = selected]
        ELSE [blank EXCEPT
                  !.selected_countries = selected,
                  !.selected_metric = metric,
                  !.filtered_df = filtered,
                  !.plot_metric = metric,
                  !.avg_ghi_ranking =
                      IF "GHI" \in Columns(filtered)
                      THEN ranking(filtered, ranking_column(metric), ties)
                      ELSE <<>>,
                  !.cleaning_impact_df =
                      IF cleaning_relevant(filtered) THEN cleaning_impact(filtered) ELSE <<>>,
                  !.messages =
                      loaded.shown \cup
                      (IF "GHI" \in Columns(filtered) THEN {} ELSE {NoGhiInfo})]

(***************************************************************************)
(* The state machine.                                                      *)
(***************************************************************************)
\* What a path may hold when the file has at most n rows.
FilesUpTo(n) == {Absent} \cup {File(rows) : rows \in SeqsUpTo(RowPool, n)}

Dir(benin, sierra_leone, togo) ==
    (file_path("Benin") :> benin) @@
    (file_path("Sierra Leone") :> sierra_leone) @@
    (file_path("Togo") :> togo)

\* The data directories of at most MaxRows rows.
DataDirs ==
    UNION {UNION {{Dir(a, b, c) : c \in FilesUpTo(MaxRows - Len(a.rows) - Len(b.rows))} :
                  b \in FilesUpTo(MaxRows - Len(a.rows))} :
           a \in FilesUpTo(MaxRows)}

Init ==
    /\ fs \in DataDirs
    /\ fsChanged = FALSE
    /\ ranSinceChange = FALSE
    /\ argsort_ties \in {"kept", "reversed"}
    /\ cache = <<>>
    /\ reads = 0
    /\ page = NotRun
    /\ df_combined = <<>>
    /\ selected_countries = {}
    /\ selected_metric = MetricOptions[1]
    /\ filtered_df = <<>>
    /\ plot_metric = NoPlot
    /\ avg_ghi_ranking = <<>>
    /\ cleaning_impact_df = <<>>
    /\ messages = {}

\* The script runs top to bottom with the widgets holding the given choices.
RunScript(choice_countries, choice_metric) ==
    \E call \in {cache_data(cache, fs)} :
    \E out \in {script(call.value, choice_countries, choice_metric, argsort_ties)} :
        /\ call.miss => reads < MaxReads
        /\ reads' = IF call.miss THEN reads + 1 ELSE reads
        /\ cache' = <<cache_entry_after(call.value, out.filtered_df)>>
        /\ page' = out.page
        /\ df_combined' = out.df_combined
        /\ selected_countries' = out.selected_countries
        /\ selected_metric' = out.selected_metric
        /\ filtered_df' = out.filtered_df
        /\ plot_metric' = out.plot_metric
        /\ avg_ghi_ranking' = out.avg_ghi_ranking
        /\ cleaning_impact_df' = out.cleaning_impact_df
        /\ messages' = out.messages
        /\ ranSinceChange' = fsChanged
        /\ UNCHANGED <<fs, fsChanged, argsort_ties>>

\* A browser opens (or reloads) the page: a session with no widget values.
OpenPage == RunScript(<<>>, <<>>)

\* The user changes the country multiselect; the script re-runs.  The metric
\* selectbox keeps its value only if the last run rendered it.
SelectCountries(choice) ==
    /\ page \in {NothingSelected, Dashboard}
    /\ choice \subseteq all_countries(df_combined)
    /\ choice # selected_countries
    /\ RunScript(<<choice>>, IF page = Dashboard THEN <<selected_metric>> ELSE <<>>)

\* The user changes the metric selectbox; the script re-runs.
SelectMetric(metric) ==
    /\ page = Dashboard
    /\ metric # selected_metric
    /\ RunScript(<<selected_countries>>, <<metric>>)

\* The directories of the specification with file changes: no file of more
\* than one row.
OneRowFiles(files) == \A p \in Paths : Len(files[p].rows) <= 1

UNCHANGED_process ==
    UNCHANGED <<argsort_ties, cache, reads, page, df_combined, selected_countries,
                selected_metric, filtered_df, plot_metric, avg_ghi_ranking,
                cleaning_impact_df, messages>>

\* Outside the process, a file is written: created, or its content replaced.
\* One change of the directory is followed, and only after the first call of
\* load_all_cleaned_data: a change before it is another initial directory.
WriteFile(country, rows) ==
    /\ ~fsChanged /\ cache # <<>>
    /\ fs[file_path(country)] # File(rows)
    /\ fs' = [fs EXCEPT ![file_path(country)] = File(rows)]
    /\ OneRowFiles(fs')
    /\ fsChanged' = TRUE
    /\ ranSinceChange' = FALSE
    /\ UNCHANGED_process

\* Outside the process, a file is deleted.
DeleteFile(country) ==
    /\ ~fsChanged /\ cache # <<>>
    /\ fs[file_path(country)].exists
    /\ fs' = [fs EXCEPT ![file_path(country)] = Absent]
    /\ fsChanged' = TRUE
    /\ ranSinceChange' = FALSE
    /\ UNCHANGED_process

UserStep ==
    \/ OpenPage
    \/ \E choice \in SUBSET Countries : SelectCountries(choice)
    \/ \E metric \in Metrics : SelectMetric(metric)

FileStep ==
    \/ \E country \in Countries, rows \in FileContents : WriteFile(country, rows)
    \/ \E country \in Countries : DeleteFile(country)

Next == UserStep

Spec == Init /\ [][Next]_vars

NextFs == UserStep \/ FileStep

InitFs == Init /\ OneRowFiles(fs)

SpecFs == InitFs /\ [][NextFs]_vars

(***************************************************************************)
(* Properties.  Under Spec the data directory never changes, so the entry  *)
(* in the store was read from fs as it stands.                             *)
(***************************************************************************)
Stored == cache # <<>>

Exists(country) == fs[file_path(country)].exists

\* The rows of df that carry the given country.
RowsOf(df, country) == SelectSeq(df, LAMBDA row : row.Country = country)

\* How often a row occurs in a frame.
Occurrences(df, row) == Cardinality({i \in 1..Len(df) : df[i] = row})

\* m is the arithmetic mean of column col over the non-empty frame rows.
IsMeanOf(m, rows, col) ==
    /\ rows # <<>>
    /\ m.den > 0
    /\ m.num * Len(rows) = m.den * SumSeq([i \in 1..Len(rows) |-> rows[i][col]])

SameMean(a, b) == a.num * b.den = b.num * a.den

\* C1: if a configured file is missing when load_all_cleaned_data runs, the
\* call reports exactly one error, naming the first missing country of
\* country_files and that country's path, and returns no rows at all: the
\* rows of the files read before it reach neither the store nor the page.
C1_MissingFileNoPartialData ==
    (Stored /\ \E c \in Countries : ~Exists(c)) =>
        \E k \in 1..Len(CountryOrder) :
            /\ ~Exists(CountryOrder[k])
            /\ \A j \in 1..(k - 1) : Exists(CountryOrder[j])
            /\ cache[1].shown =
                   {[kind |-> "error", country |-> CountryOrder[k],
                     file_path |-> base_path \o country_files[CountryOrder[k]]]}
            /\ cache[1].shown \subseteq messages
            /\ cache[1].df = <<>>
            /\ df_combined = <<>>
            /\ filtered_df = <<>>
            /\ page = NoData

\* C1 witness: Togo's file is missing, Benin's and Sierra Leone's hold rows
\* that were read before it, and the run ended with the error and no data.
C1_Witness ==
    /\ Stored
    /\ ~Exists("Togo")
    /\ Exists("Benin") /\ fs[file_path("Benin")].rows # <<>>
    /\ Exists("Sierra Leone") /\ fs[file_path("Sierra Leone")].rows # <<>>
    /\ \E m \in messages : m.kind = "error" /\ m.country = "Togo"
    /\ df_combined = <<>>
    /\ page = NoData

\* C2: if every configured file exists, the loaded frame has as many rows as
\* the files have together, no error is reported, and the rows of each file
\* stand in it in file order, each with the file's fields unchanged and with
\* Country equal to the country configured for that file.
C2_LoadSizeAndTags ==
    (Stored /\ \A c \in Countries : Exists(c)) =>
        LET df == cache[1].df
            rows(k) == fs[file_path(CountryOrder[k])].rows
            offset(k) == SumSeq([j \in 1..(k - 1) |-> Len(rows(j))])
        IN  /\ Len(df) = SumSeq([k \in 1..Len(CountryOrder) |-> Len(rows(k))])
            /\ cache[1].shown = {}
            /\ df_combined = df
            /\ \A k \in 1..Len(CountryOrder) : \A j \in 1..Len(rows(k)) :
                   /\ df[offset(k) + j].Country = CountryOrder[k]
                   /\ DOMAIN df[offset(k) + j] = DOMAIN rows(k)[j] \cup {"Country"}
                   /\ \A f \in DOMAIN rows(k)[j] : df[offset(k) + j][f] = rows(k)[j][f]

\* C2 witness: three existing, non-empty files have been loaded.
C2_Witness ==
    /\ Stored
    /\ \A c \in Countries : Exists(c) /\ fs[file_path(c)].rows # <<>>
    /\ Len(df_combined) = 3
    /\ all_countries(df_combined) = Countries

\* C3 as claimed: the ranking table holds the per-country means of the metric
\* the selectbox holds.
C3_RankingOfSelectedMetric ==
    page = Dashboard =>
        \A i \in 1..Len(avg_ghi_ranking) :
            IsMeanOf(avg_ghi_ranking[i].Average,
                     RowsOf(filtered_df, avg_ghi_ranking[i].Country), selected_metric)

\* C3 as amended: the ranking table holds, for every country of the filtered
\* view, the arithmetic mean of GHI over that country's rows, whichever metric
\* the selectbox holds; the selected metric is the y column of the plots only.
C3_RankingOfGHI ==
    page = Dashboard =>
        /\ {avg_ghi_ranking[i].Country : i \in 1..Len(avg_ghi_ranking)} =
               all_countries(filtered_df)
        /\ \A i \in 1..Len(avg_ghi_ranking) :
               IsMeanOf(avg_ghi_ranking[i].Average,
                        RowsOf(filtered_df, avg_ghi_ranking[i].Country), "GHI")
        /\ plot_metric = selected_metric

\* C3 witness: a metric other than GHI is selected, and the table shows a mean
\* that is the GHI mean and not the mean of the selected metric.
C3_Witness ==
    /\ page = Dashboard
    /\ selected_metric = "DNI"
    /\ \E i \in 1..Len(avg_ghi_ranking) :
           LET rows == RowsOf(filtered_df, avg_ghi_ranking[i].Country)
           IN  /\ Len(rows) = 2
               /\ IsMeanOf(avg_ghi_ranking[i].Average, rows, "GHI")
               /\ ~IsMeanOf(avg_ghi_ranking[i].Average, rows, "DNI")

\* The GHI values of a country's rows in the filtered view average to v.
GhiMeanIs(country, v) ==
    IsMeanOf([num |-> v, den |-> 1], RowsOf(filtered_df, country), "GHI")

\* C4: the ranking table has exactly one entry per country of the filtered
\* view and its means never increase from one entry to the next.  With GHI
\* means Benin 500, Sierra Leone 300, Togo 400 and all three selected it is
\* Benin 500, Togo 400, Sierra Leone 300; with only Togo selected and a Togo
\* mean of 400 it is the single entry Togo 400.
C4_RankingSortedOnePerCountry ==
    page = Dashboard =>
        /\ Len(avg_ghi_ranking) = Cardinality(all_countries(filtered_df))
        /\ {avg_ghi_ranking[i].Country : i \in 1..Len(avg_ghi_ranking)} =
               all_countries(filtered_df)
        /\ \A i \in 1..(Len(avg_ghi_ranking) - 1) :
               avg_ghi_ranking[i].Average.num * avg_ghi_ranking[i + 1].Average.den >=
                   avg_ghi_ranking[i + 1].Average.num * avg_ghi_ranking[i].Average.den
        /\ (/\ selected_countries = Countries
            /\ GhiMeanIs("Benin", 500)
            /\ GhiMeanIs("Sierra Leone", 300)
            /\ GhiMeanIs("Togo", 400))
           => avg_ghi_ranking =
                  <<[Country |-> "Benin", Average |-> [num |-> 500, den |-> 1]],
                    [Country |-> "Togo", Average |-> [num |-> 400, den |-> 1]],
                    [Country |-> "Sierra Leone", Average |-> [num |-> 300, den |-> 1]]>>
        /\ (selected_countries = {"Togo"} /\ GhiMeanIs("Togo", 400))
           => avg_ghi_ranking =
                  <<[Country |-> "Togo", Average |-> [num |-> 400, den |-> 1]]>>

\* C4 witness: the three one-row files of the example, all countries selected,
\* and the table in the order Benin, Togo, Sierra Leone.
C4_Witness ==
    /\ page = Dashboard
    /\ selected_countries = Countries
    /\ GhiMeanIs("Benin", 500) /\ GhiMeanIs("Sierra Leone", 300) /\ GhiMeanIs("Togo", 400)
    /\ Len(avg_ghi_ranking) = 3
    /\ avg_ghi_ranking[1].Country = "Benin"
    /\ avg_ghi_ranking[2].Country = "Togo"
    /\ avg_ghi_ranking[3].Country = "Sierra Leone"

\* C5: once the multiselect is on the page, the filtered view holds exactly
\* the rows of the dataset whose Country is selected: every such row as often
\* as the dataset holds it, and no other row; with every country of the
\* dataset selected it is as long as the dataset.
C5_FilterExactlySelected ==
    page \in {NothingSelected, Dashboard} =>
        /\ \A i \in 1..Len(df_combined) :
               Occurrences(filtered_df, df_combined[i]) =
                   IF df_combined[i].Country \in selected_countries
                   THEN Occurrences(df_combined, df_combined[i])
                   ELSE 0
        /\ \A i \in 1..Len(filtered_df) :
               /\ filtered_df[i].Country \in selected_countries
               /\ Occurrences(df_combined, filtered_df[i]) > 0
        /\ selected_countries = all_countries(df_combined) =>
               Len(filtered_df) = Len(df_combined)

\* C5 witness: a proper, non-empty selection that keeps two rows and leaves
\* one out.
C5_Witness ==
    /\ page = Dashboard
    /\ selected_countries # all_countries(df_combined)
    /\ Len(filtered_df) = 2
    /\ Len(df_combined) = 3

\* C6: with a non-empty dataset and nothing selected the filtered view is
\* empty, the page shows the "select at least one country" notice and nothing
\* else: no plot, no ranking, no cleaning impact, no error, no warning.
C6_EmptySelectionIsNeutral ==
    (page # NotRun /\ df_combined # <<>> /\ selected_countries = {}) =>
        /\ filtered_df = <<>>
        /\ page = NothingSelected
        /\ plot_metric = NoPlot
        /\ avg_ghi_ranking = <<>>
        /\ cleaning_impact_df = <<>>
        /\ messages = {[kind |-> "info", country |-> "", file_path |-> ""]}

\* C6 witness: a dataset of three countries with no country selected.
C6_Witness ==
    /\ page = NothingSelected
    /\ selected_countries = {}
    /\ all_countries(df_combined) = Countries

\* The Cleaning values of the filtered view, missing cells aside.
CleaningValues ==
    {filtered_df[i].Cleaning :
        i \in {j \in 1..Len(filtered_df) : "Cleaning" \in DOMAIN filtered_df[j]}}

\* The rows of the filtered view of one country and one Cleaning value.
CleaningRows(country, v) ==
    SelectSeq(filtered_df,
              LAMBDA row : /\ row.Country = country
                           /\ "Cleaning" \in DOMAIN row
                           /\ row.Cleaning = v)

\* C7: with fewer than two distinct Cleaning values in the filtered view
\* (one value throughout, or no Cleaning cell at all) no cleaning impact is
\* produced; with two or more it has exactly one entry per (Country,
\* Cleaning) pair that has rows, holding the means of ModA and of ModB over
\* those rows.
C7_CleaningImpactNeedsTwoValues ==
    page = Dashboard =>
        /\ Cardinality(CleaningValues) < 2 => cleaning_impact_df = <<>>
        /\ Cardinality(CleaningValues) >= 2 =>
               /\ {<<cleaning_impact_df[i].Country, cleaning_impact_df[i].Cleaning>> :
                      i \in 1..Len(cleaning_impact_df)} =
                  {<<c, v>> \in Countries \X CleaningValues : CleaningRows(c, v) # <<>>}
               /\ Len(cleaning_impact_df) =
                      Cardinality({<<c, v>> \in Countries \X CleaningValues :
                                      CleaningRows(c, v) # <<>>})
               /\ \A i \in 1..Len(cleaning_impact_df) :
                      LET e == cleaning_impact_df[i]
                      IN  /\ IsMeanOf(e.ModA, CleaningRows(e.Country, e.Cleaning), "ModA")
                          /\ IsMeanOf(e.ModB, CleaningRows(e.Country, e.Cleaning), "ModB")

\* C7 witness: every row of the filtered view has Cleaning 0, there are rows
\* of two countries, and no cleaning impact is on the page.
C7_Witness ==
    /\ page = Dashboard
    /\ Len(filtered_df) >= 2
    /\ Cardinality(all_countries(filtered_df)) >= 2
    /\ \A i \in 1..Len(filtered_df) :
           "Cleaning" \in DOMAIN filtered_df[i] /\ filtered_df[i].Cleaning = 0
    /\ cleaning_impact_df = <<>>

\* C8: the body of load_all_cleaned_data runs at most once in the process.
\* Once its result is stored (a frame, or the empty frame and the error of
\* a missing file) the store never changes, and every run of the script shows
\* that stored frame and replays that stored error, whatever has happened to
\* the files since.
C8_LoadedOncePerProcess ==
    [][/\ reads' <= 1
       /\ Stored =>
              /\ cache' = cache
              /\ reads' = reads
              /\ page' # NotRun =>
                     /\ df_combined' = cache[1].df
                     /\ cache[1].shown \subseteq messages']_vars

\* C8 witness: the first call found Togo's file missing; the file has appeared
\* since, the script has run again, and the page still shows the stored empty
\* result and the stored error after one read.
C8_Witness ==
    /\ Stored
    /\ fsChanged /\ ranSinceChange
    /\ \A c \in Countries : Exists(c) /\ fs[file_path(c)].rows # <<>>
    /\ reads = 1
    /\ page = NoData
    /\ df_combined = <<>>
    /\ \E m \in messages : m.kind = "error" /\ m.country = "Togo"

Tied(i, j) == SameMean(avg_ghi_ranking[i].Average, avg_ghi_ranking[j].Average)

\* C10 as claimed: countries with equal means stand in the ranking in
\* ascending order of their names.
C10_TiesByNameAscending ==
    page = Dashboard =>
        \A i, j \in 1..Len(avg_ghi_ranking) :
            (i < j /\ Tied(i, j)) =>
                \E a, b \in 1..Len(KeyOrder) :
                    /\ a < b
                    /\ KeyOrder[a] = avg_ghi_ranking[i].Country
                    /\ KeyOrder[b] = avg_ghi_ranking[j].Country

\* C10 as amended: countries with equal means all stand in the ranking, next
\* to each other, in an order the code leaves to the default sort, which is
\* not stable and need not be ascending by name; within one process the same
\* filtered view still always gives the same ranking.
C10_TiesAdjacentAndRepeatable ==
    /\ [](page = Dashboard =>
             /\ \A c, d \in all_countries(filtered_df) :
                    \E i, j \in 1..Len(avg_ghi_ranking) :
                        /\ avg_ghi_ranking[i].Country = c
                        /\ avg_ghi_ranking[j].Country = d
                        /\ (c # d) => (i # j)
             /\ \A i, j \in 1..Len(avg_ghi_ranking) :
                    (i < j /\ Tied(i, j)) => \A k \in i..j : Tied(i, k))
    /\ [][(page = Dashboard /\ page' = Dashboard /\ filtered_df' = filtered_df)
              => avg_ghi_ranking' = avg_ghi_ranking]_vars

\* C10 witness: Benin and Togo have equal GHI means from different rows, and
\* the table lists Togo before Benin.
C10_Witness ==
    /\ page = Dashboard
    /\ Len(avg_ghi_ranking) >= 2
    /\ avg_ghi_ranking[1].Country = "Togo"
    /\ avg_ghi_ranking[2].Country = "Benin"
    /\ Tied(1, 2)
    /\ Len(RowsOf(filtered_df, "Benin")) # Len(RowsOf(filtered_df, "Togo"))

====
